---- MODULE Spec2Model ----
(***************************************************************************)
(* A model of wordle.py: the feedback evaluator (give_feedback), the       *)
(* consistency filter (prune), the exhaustive guess selector               *)
(* (guess_greedy), the coverage heuristic and the round loop (loop, as     *)
(* called from main).                                                      *)
(*                                                                         *)
(* Words and feedback sequences are TLA+ sequences, indexed from 1 where   *)
(* Python indexes from 0.  Letters are one-character strings.              *)
(***************************************************************************)
EXTENDS Integers, Sequences, FiniteSets, TLC

VARIABLES ALL_WORDS, word, feedbacker, hard, words, guesses, g, f, i,
          requests, pc, ret

vars == <<ALL_WORDS, word, feedbacker, hard, words, guesses, g, f, i,
          requests, pc, ret>>

-----------------------------------------------------------------------------
(* Bounds of the model. *)

\* Longest word list given to prune on its own.
MaxList == 2

\* Longest dictionary drawn from a vocabulary.
MaxDict == 2

\* Longest word list given to guess_greedy on its own.
MaxWords == 3

\* Longest guess pool given to guess_greedy on its own.
MaxPool == 1

\* Longest dictionary of one-letter words (long enough to outlast the rounds).
MaxSingles == 12

-----------------------------------------------------------------------------
(* Constants of the program. *)

NOWHERE == "n"
ELSEWHERE == "e"
HERE == "h"

\* Python's None, the initial argmin of guess_greedy.
None == <<>>

\* The round limit of loop.
N == 10

-----------------------------------------------------------------------------
(* Input sets. *)

Alphabet == <<"E", "X", "A", "B", "C", "D", "F", "G", "H", "I", "J", "K",
              "L", "M", "O", "P">>

\* The words the inputs are drawn from: all words of one, two and three
\* letters over a small alphabet.
OneLetterWords == {<<a>> : a \in {"E", "X", "A"}}

TwoLetterWords == {<<a, b>> : a, b \in {"E", "X", "A"}}

ThreeLetterWords == {<<a, b, c>> : a, b, c \in {"E", "X"}}

Vocabularies == {TwoLetterWords, ThreeLetterWords}

\* More words for give_feedback on its own.
WideThreeLetterWords == {<<a, b, c>> : a, b, c \in {"E", "X", "A"}}

Symbols == {NOWHERE, ELSEWHERE, HERE}

Range(s) == {s[k] : k \in 1..Len(s)}

Min2(a, b) == IF a < b THEN a ELSE b

Lowest(S) == CHOOSE x \in S : \A y \in S : x <= y

Strings(S, n) == [1..n -> S]

Lists(S, lo, hi) == UNION {[1..k -> S] : k \in lo..hi}

\* A dictionary of n one-letter words, all different.
Singles(n) == [k \in 1..n |-> <<Alphabet[k]>>]

Dictionaries ==
    UNION {Lists(V, 1, MaxDict) : V \in Vocabularies}
        \cup {Singles(n) : n \in 1..MaxSingles}

\* The words main may be given on the command line for a dictionary D.
Targets(D) ==
    Range(D) \cup {w \in OneLetterWords \cup TwoLetterWords \cup ThreeLetterWords :
                      Len(w) = Len(D[1])}

-----------------------------------------------------------------------------
(* cut, prune *)

\* s[:i] + s[i+1:], with i counted from 1.
cut(s, k) == SubSeq(s, 1, k - 1) \o SubSeq(s, k + 1, Len(s))

\* Python's `letter in w`.
In(letter, w) == \E k \in 1..Len(w) : w[k] = letter

\* A NOWHERE that filters nothing.
KeepNowhereAll(w, letter) == TRUE

\* The filter of line 102.
KeepNowhere(w, letter) == ~In(letter, w)

\* An ELSEWHERE that looks for the letter only after position k.
KeepElsewhereLater(w, letter, k) ==
    (\E j \in (k + 1)..Len(w) : w[j] = letter) /\ w[k] # letter

\* The filter of line 104.
KeepElsewhere(w, letter, k) == In(letter, w) /\ w[k] # letter

\* The second loop of prune: one filter per position of zip(guess, feedback).
RECURSIVE prune_filters(_, _, _, _)
prune_filters(ws, guess, feedback, k) ==
    IF k > Min2(Len(guess), Len(feedback)) THEN ws
    ELSE LET letter == guess[k]
             result == feedback[k]
             ws1 == IF result = NOWHERE
                    THEN SelectSeq(ws, LAMBDA w : KeepNowhere(w, letter))
                    ELSE ws
             ws2 == IF result = ELSEWHERE
                    THEN SelectSeq(ws1, LAMBDA w : KeepElsewhere(w, letter, k))
                    ELSE ws1
         IN  prune_filters(ws2, guess, feedback, k + 1)

RECURSIVE prune(_, _, _)
prune(ws, guess, feedback) ==
    LET heres == {k \in 1..Min2(Len(guess), Len(feedback)) : feedback[k] = HERE}
    IN  IF heres # {}
        THEN LET k == Lowest(heres)
                 letter == guess[k]
                 consistent == SelectSeq(ws, LAMBDA w : w[k] = letter)
                 reduced == [j \in 1..Len(consistent) |-> cut(consistent[j], k)]
                 pruned == prune(reduced, cut(guess, k), cut(feedback, k))
                 restored == [j \in 1..Len(pruned) |->
                                 SubSeq(pruned[j], 1, k - 1) \o <<letter>>
                                     \o SubSeq(pruned[j], k, Len(pruned[j]))]
             IN  restored
        ELSE prune_filters(ws, guess, feedback, 1)

-----------------------------------------------------------------------------
(* give_feedback *)

\* A scorer that marks exact matches but never removes them from the word.
give_feedback_flat(w, guess) ==
    [k \in 1..Min2(Len(w), Len(guess)) |->
        IF guess[k] = w[k] THEN HERE
        ELSE IF In(guess[k], w) THEN ELSEWHERE ELSE NOWHERE]

RECURSIVE give_feedback(_, _), feedback_scan(_, _, _, _)
give_feedback(w, guess) == feedback_scan(w, guess, 1, <<>>)

\* The loop of give_feedback from position k on, `out` holding the symbols so far.
feedback_scan(w, guess, k, out) ==
    IF k > Min2(Len(w), Len(guess)) THEN out
    ELSE IF guess[k] = w[k]
         THEN LET rest == give_feedback(cut(w, k), cut(guess, k))
              IN  SubSeq(rest, 1, k - 1) \o <<HERE>> \o SubSeq(rest, k, Len(rest))
         ELSE IF In(guess[k], w)
              THEN feedback_scan(w, guess, k + 1, Append(out, ELSEWHERE))
              ELSE feedback_scan(w, guess, k + 1, Append(out, NOWHERE))

-----------------------------------------------------------------------------
(* The functions on their own. *)

IdleLoop ==
    /\ ALL_WORDS = <<>>
    /\ feedbacker = "none"
    /\ hard = FALSE
    /\ i = 0
    /\ requests = 0

InitFeedback ==
    /\ IdleLoop
    /\ \E V \in {OneLetterWords, TwoLetterWords, WideThreeLetterWords} :
          /\ word \in V
          /\ g \in V
    /\ words = <<>>
    /\ guesses = <<>>
    /\ f = <<>>
    /\ pc = "give_feedback"
    /\ ret = <<>>

CallFeedback ==
    /\ pc = "give_feedback"
    /\ ret' = give_feedback(word, g)
    /\ pc' = "return"
    /\ UNCHANGED <<ALL_WORDS, word, feedbacker, hard, words, guesses, g, f, i,
                   requests>>

FeedbackSpec == InitFeedback /\ [][CallFeedback]_vars

InitPrune ==
    /\ IdleLoop
    /\ word = None
    /\ \E V \in Vocabularies :
          /\ words \in Lists(V, 0, MaxList)
          /\ g \in V
          /\ f \in Strings(Symbols, Len(g))
    /\ guesses = <<>>
    /\ pc = "prune"
    /\ ret = <<>>

CallPrune ==
    /\ pc = "prune"
    /\ ret' = prune(words, g, f)
    /\ pc' = "return"
    /\ UNCHANGED <<ALL_WORDS, word, feedbacker, hard, words, guesses, g, f, i,
                   requests>>

PruneSpec == InitPrune /\ [][CallPrune]_vars

-----------------------------------------------------------------------------
(* guess_greedy *)

\* A running minimum that starts at N instead of N * N.
initial_minval_unsquared(n) == n

\* Line 111: minval = N * N.
initial_minval(n) == n * n

\* A break that is taken one term too early, when twice the sum exceeds the
\* running minimum.
early_exit_eager(s, minval) == s + s > minval

\* Line 118: the partial sum exceeds the running minimum.
early_exit(s, minval) == s > minval

\* Line 121: strict improvement on the running minimum.
improves(s, minval) == s < minval

\* The inner loop (lines 114-120) from the k-th word on, s the sum so far.
RECURSIVE score_loop(_, _, _, _, _)
score_loop(ws, guess, k, s, minval) ==
    IF k > Len(ws) THEN s
    ELSE LET feedback == give_feedback(ws[k], guess)
             s1 == s + Len(prune(ws, guess, feedback))
         IN  IF early_exit(s1, minval) THEN s1
             ELSE score_loop(ws, guess, k + 1, s1, minval)

\* The outer loop (lines 113-123) from the j-th guess on.
RECURSIVE search_loop(_, _, _, _, _)
search_loop(ws, pool, j, minval, argmin) ==
    IF j > Len(pool) THEN [argmin |-> argmin, minval |-> minval]
    ELSE LET s == score_loop(ws, pool[j], 1, 0, minval)
         IN  IF improves(s, minval)
             THEN search_loop(ws, pool, j + 1, s, pool[j])
             ELSE search_loop(ws, pool, j + 1, minval, argmin)

\* The result is the pair (argmin, minval); the message shows minval / N.
guess_greedy(ws, pool) ==
    search_loop(ws, pool, 1, initial_minval(Len(ws)), None)

\* guess_greedy on its own.
InitGreedy ==
    /\ IdleLoop
    /\ word = None
    /\ words \in Lists(TwoLetterWords, 1, MaxWords)
    /\ guesses \in {words} \cup Lists(TwoLetterWords, 0, MaxPool)
    /\ g = None
    /\ f = <<>>
    /\ pc = "guess_greedy"
    /\ ret = <<>>

CallGreedy ==
    /\ pc = "guess_greedy"
    /\ ret' = guess_greedy(words, guesses)
    /\ pc' = "return"
    /\ UNCHANGED <<ALL_WORDS, word, feedbacker, hard, words, guesses, g, f, i,
                   requests>>

GreedySpec == InitGreedy /\ [][CallGreedy]_vars

-----------------------------------------------------------------------------
(* The heuristic initial guess of loop. *)

\* letter_counts[l]: occurrences of l in the joined distinct letters of ws.
RECURSIVE letter_counts(_, _)
letter_counts(ws, l) ==
    IF ws = <<>> THEN 0
    ELSE (IF l \in Range(Head(ws)) THEN 1 ELSE 0) + letter_counts(Tail(ws), l)

RECURSIVE sum_counts(_, _)
sum_counts(ws, S) ==
    IF S = {} THEN 0
    ELSE LET l == CHOOSE x \in S : TRUE
         IN  letter_counts(ws, l) + sum_counts(ws, S \ {l})

\* A coverage that counts every occurrence of a letter of the word.
RECURSIVE coverage_per_occurrence(_, _)
coverage_per_occurrence(ws, w) ==
    IF w = <<>> THEN 0
    ELSE letter_counts(ws, Head(w)) + coverage_per_occurrence(ws, Tail(w))

\* coverage(word), lines 154-155.
coverage(ws, w) == sum_counts(ws, Range(w))

\* max(words, key=coverage): the first word of the largest key.
RECURSIVE max_scan(_, _, _)
max_scan(ws, k, best) ==
    IF k > Len(ws) THEN best
    ELSE IF coverage(ws, ws[k]) > coverage(ws, best)
         THEN max_scan(ws, k + 1, ws[k])
         ELSE max_scan(ws, k + 1, best)

initial_guess(ws) == max_scan(ws, 2, ws[1])

-----------------------------------------------------------------------------
(* loop, as main calls it: loop(ALL_WORDS, guess_greedy, feedbacker). *)

InitLoop ==
    /\ ALL_WORDS \in Dictionaries
    /\ feedbacker \in {"oracle", "manual"}
    /\ word \in IF feedbacker = "oracle" THEN Targets(ALL_WORDS) ELSE {None}
    /\ hard \in BOOLEAN
    /\ words = ALL_WORDS
    /\ guesses = <<>>
    /\ g = None
    /\ f = <<>>
    /\ i = 0
    /\ requests = 0
    /\ pc = "start"
    /\ ret = <<>>

\* Lines 153-157.
Start ==
    /\ pc = "start"
    /\ g' = initial_guess(words)
    /\ pc' = "feedback"
    /\ UNCHANGED <<ALL_WORDS, word, feedbacker, hard, words, guesses, f, i,
                   requests, ret>>

\* What manual_feedback may return: any string typed in, here the strings no
\* longer than the guess (zip ignores what follows) over the three codes and
\* one character that is none of them.
Typed(n) == Lists(Symbols \cup {"?"}, 0, n)

\* What feedbacker(g) may return: the oracle's answer for `word`, or a string
\* typed in by hand.
Responses ==
    IF feedbacker = "oracle" THEN {give_feedback(word, g)} ELSE Typed(Len(g))

\* Line 166.
solved(ws) == Len(ws) = 1

\* Lines 161-170: ask for feedback, prune, decide.  The feedback is used up
\* within the step (the next round overwrites it), so it is not kept.
Feedback ==
    /\ pc = "feedback"
    /\ g # None
    /\ \E fb \in Responses : words' = prune(words, g, fb)
    /\ requests' = requests + 1
    /\ pc' = IF Len(words') = 0 THEN "failed"
             ELSE IF solved(words') THEN "solved"
             ELSE "select"
    /\ UNCHANGED <<ALL_WORDS, word, feedbacker, hard, guesses, g, f, i, ret>>

\* Lines 161-163 with g = None: zip(..., None) raises TypeError, in
\* give_feedback for the oracle and in prune for feedback typed in by hand.
FeedbackTypeError ==
    /\ pc = "feedback"
    /\ g = None
    /\ requests' = requests + 1
    /\ pc' = "TypeError"
    /\ UNCHANGED <<ALL_WORDS, word, feedbacker, hard, words, guesses, g, f, i,
                   ret>>

\* Lines 171-172, and the end of the for loop (lines 160, 174-175).
Select ==
    /\ pc = "select"
    /\ guesses' = IF hard THEN words ELSE ALL_WORDS
    /\ ret' = guess_greedy(words, guesses')
    /\ g' = ret'.argmin
    /\ i' = i + 1
    /\ pc' = IF i + 1 < N THEN "feedback" ELSE "exhausted"
    /\ UNCHANGED <<ALL_WORDS, word, feedbacker, hard, words, f, requests>>

Next == Start \/ Feedback \/ FeedbackTypeError \/ Select

Spec == InitLoop /\ [][Next]_vars

-----------------------------------------------------------------------------
(* Properties of give_feedback and prune. *)

\* C1: prune(S, g, f) is exactly the sublist of the words s of S with
\* give_feedback(s, g) = f: none that agrees is dropped, none that disagrees
\* is kept, repeated letters included.
C1_PruneExact ==
    pc = "return" =>
        ret = SelectSeq(words, LAMBDA s : give_feedback(s, g) = f)

\* A guess with a repeated letter, HERE at its first occurrence and NOWHERE at
\* a later one, for which prune keeps one of two words.
C1_Witness ==
    /\ pc = "return"
    /\ Len(words) = 2
    /\ Len(ret) = 1
    /\ \E j, k \in 1..Len(g) :
          j < k /\ g[j] = g[k] /\ f[j] = HERE /\ f[k] = NOWHERE

\* The positions where guess and word agree.
Matched(w, guess) == {k \in 1..Len(w) : guess[k] = w[k]}

\* The letters of the word left once the matched positions are removed.
Unmatched(w, guess) == {w[k] : k \in (1..Len(w)) \ Matched(w, guess)}

\* C2: give_feedback(w, g) has the length of g, is HERE exactly where g and w
\* agree, and elsewhere is ELSEWHERE when the letter occurs among the unmatched
\* letters of w and NOWHERE otherwise; give_feedback("EX", "EE") is [h, n].
C2_FeedbackShape ==
    pc = "return" =>
        /\ Len(ret) = Len(g)
        /\ \A k \in 1..Len(g) :
              ret[k] = IF k \in Matched(word, g) THEN HERE
                       ELSE IF g[k] \in Unmatched(word, g) THEN ELSEWHERE
                       ELSE NOWHERE
        /\ (word = <<"E", "X">> /\ g = <<"E", "E">>) => ret = <<HERE, NOWHERE>>

\* The documented example has been evaluated.
C2_Witness ==
    /\ pc = "return"
    /\ word = <<"E", "X">>
    /\ g = <<"E", "E">>
    /\ ret = <<HERE, NOWHERE>>

-----------------------------------------------------------------------------
(* Properties of guess_greedy. *)

\* score(guess): the sum over the words of the size of the pruned list, in full.
RECURSIVE FullScore(_, _, _)
FullScore(ws, guess, k) ==
    IF k > Len(ws) THEN 0
    ELSE Len(prune(ws, guess, give_feedback(ws[k], guess)))
            + FullScore(ws, guess, k + 1)

Score(ws, guess) == FullScore(ws, guess, 1)

\* C3: for non-empty words and a non-empty pool, guess_greedy returns a member
\* of the pool of minimal score, the earliest such member in pool order.
C3_GreedyMinimal ==
    (pc = "return" /\ Len(words) >= 1 /\ Len(guesses) >= 1) =>
        \E j \in 1..Len(guesses) :
            /\ guesses[j] = ret.argmin
            /\ \A k \in 1..Len(guesses) :
                  Score(words, guesses[k]) >= Score(words, guesses[j])
            /\ \A k \in 1..(j - 1) :
                  Score(words, guesses[k]) > Score(words, guesses[j])

\* The search of guess_greedy with every score summed in full (no break).
RECURSIVE FullSearch(_, _, _, _, _)
FullSearch(ws, pool, j, minval, argmin) ==
    IF j > Len(pool) THEN [argmin |-> argmin, minval |-> minval]
    ELSE LET s == Score(ws, pool[j])
         IN  IF s < minval
             THEN FullSearch(ws, pool, j + 1, s, pool[j])
             ELSE FullSearch(ws, pool, j + 1, minval, argmin)

\* C8: the early exit changes neither the guess returned nor the minimum
\* reported: both equal those of the search without the break.
C8_EarlyExitHarmless ==
    pc = "return" =>
        ret = FullSearch(words, guesses, 1, Len(words) * Len(words), None)

\* A guess evaluated after the one returned was abandoned before its sum was
\* complete.
C8_Witness ==
    /\ pc = "return"
    /\ \E a, j \in 1..Len(guesses) :
          /\ a < j
          /\ guesses[a] = ret.argmin
          /\ score_loop(words, guesses[j], 1, 0, ret.minval)
                < Score(words, guesses[j])

-----------------------------------------------------------------------------
(* Properties of loop. *)

\* main was given a target word, and the word is in the dictionary.
OracleInDictionary == feedbacker = "oracle" /\ In(word, ALL_WORDS)

\* The words of D are pairwise distinct.
Distinct(D) == \A a, b \in 1..Len(D) : a # b => D[a] # D[b]

Running == pc \in {"start", "feedback", "select"}

\* C4: with oracle feedback for a target of the dictionary, the candidates
\* always contain the target, so they are never empty and loop never fails.
C4_TargetKept ==
    OracleInDictionary => In(word, words) /\ pc # "failed"

\* Two rounds of oracle feedback have pruned the candidates.
C4_Witness ==
    /\ OracleInDictionary
    /\ pc = "select"
    /\ requests >= 2
    /\ Len(words) < Len(ALL_WORDS)
    /\ In(word, words)

\* C5 as stated: with oracle feedback for a target of the dictionary (here
\* even one of pairwise-distinct words) loop ends Solved, within the round
\* limit, announcing the target.
C5_EndsSolved ==
    (OracleInDictionary /\ Distinct(ALL_WORDS) /\ ~Running) =>
        pc = "solved" /\ words = <<word>> /\ requests <= N

\* C5 amended: with oracle feedback for a target of the dictionary loop always
\* goes on to an end within the round limit (while it runs fewer than N rounds
\* are complete, and every step completes part of a round), and the end is
\* Solved announcing the target, or Exhausted after N rounds with the target among two or more
\* candidates, or, only when the dictionary repeats a word, the TypeError of a
\* None guess.
C5_EndsSolvedOrExhausted ==
    OracleInDictionary =>
        IF Running
        THEN i < N /\ requests <= i + 1
        ELSE \/ pc = "solved" /\ words = <<word>> /\ requests <= N
             \/ pc = "exhausted" /\ requests = N /\ Len(words) >= 2
                  /\ In(word, words)
             \/ pc = "TypeError" /\ ~Distinct(ALL_WORDS) /\ requests <= N

\* Ten rounds of oracle feedback on pairwise-distinct words have each left
\* two or more candidates, the target among them.
C5_Witness ==
    /\ OracleInDictionary
    /\ Distinct(ALL_WORDS)
    /\ pc = "exhausted"
    /\ requests = N
    /\ In(word, words)

\* C6: whatever the feedback, loop asks for feedback at most N times and ends
\* in one of three outcomes: Failed on an empty pruned list, Solved on a
\* pruned list of one word, Exhausted after N rounds that each left two or
\* more candidates; it goes on only while two or more candidates are left.
C6_ThreeOutcomes ==
    /\ requests <= N
    /\ pc \in {"start", "feedback", "select", "failed", "solved", "exhausted"}
    /\ pc = "failed" => Len(words) = 0
    /\ pc = "solved" => Len(words) = 1
    /\ pc = "exhausted" => requests = N /\ Len(words) >= 2
    /\ pc = "select" => Len(words) >= 2

\* The number of words of D that contain the letter at least once.
Containing(D, letter) == Cardinality({m \in 1..Len(D) : In(letter, D[m])})

RECURSIVE SumContaining(_, _)
SumContaining(D, S) ==
    IF S = {} THEN 0
    ELSE LET l == CHOOSE x \in S : TRUE
         IN  Containing(D, l) + SumContaining(D, S \ {l})

\* The coverage score of the k-th word of D.
CoverageScore(D, k) == SumContaining(D, Range(D[k]))

\* C7: the guess of round 1 is the word of the largest coverage score, the
\* earliest such word in the order of the list.
C7_InitialGuess ==
    (pc = "feedback" /\ i = 0) =>
        \E j \in 1..Len(words) :
            /\ words[j] = g
            /\ \A k \in 1..Len(words) :
                  CoverageScore(words, k) <= CoverageScore(words, j)
            /\ \A k \in 1..(j - 1) :
                  CoverageScore(words, k) < CoverageScore(words, j)

\* The first guess was chosen among several words of the largest score, one
\* of them with a repeated letter.
C7_Witness ==
    /\ pc = "feedback"
    /\ i = 0
    /\ \E j, k \in 1..Len(words) :
          /\ j < k
          /\ words[j] = g
          /\ words[k] # g
          /\ CoverageScore(words, k) = CoverageScore(words, j)
          /\ Cardinality(Range(words[k])) < Len(words[k])

\* C9: with oracle feedback for a target of a dictionary of pairwise-distinct
\* words, in either mode, a round that does not end the game leaves a strict
\* subset of the candidates, so after k rounds at most |dictionary| - k remain.
C9_StrictShrink ==
    [][(OracleInDictionary /\ Distinct(ALL_WORDS)
            /\ pc = "feedback" /\ pc' = "select") =>
          /\ Range(words') \subseteq Range(words)
          /\ Range(words') # Range(words)
          /\ Len(words') < Len(words)
          /\ Len(words') <= Len(ALL_WORDS) - requests']_vars

\* Three rounds have each removed exactly one candidate.
C9_Witness ==
    /\ OracleInDictionary
    /\ Distinct(ALL_WORDS)
    /\ pc = "select"
    /\ requests = 3
    /\ Len(words) = Len(ALL_WORDS) - requests

\* C10: on a dictionary of pairwise-distinct words guess_greedy is called
\* with two or more candidates, every guess submitted is a word of the
\* dictionary (never None), and in hard mode every guess after round 1 is one
\* of the current candidates.
C10_GuessesAreWords ==
    Distinct(ALL_WORDS) =>
        /\ pc = "select" => Len(words) >= 2
        /\ pc = "feedback" => g # None /\ In(g, ALL_WORDS)
        /\ (pc = "feedback" /\ i >= 1 /\ hard) => In(g, words)

\* In hard mode a third guess, chosen by the search among the candidates, is
\* about to be submitted.
C10_Witness ==
    /\ Distinct(ALL_WORDS)
    /\ pc = "feedback"
    /\ i >= 2
    /\ hard
    /\ Len(words) < Len(ALL_WORDS)
    /\ In(g, words)

====
